---- MODULE Spec2Model ----
(***************************************************************************)
(* Availability subsystem of acecommerce/models.py: the Availability       *)
(* facade, the three strategy models (BooleanAvailability,                 *)
(* CountdownAvailability, DateRangeAvailability), the AvailabilityMixin    *)
(* defaults and QuantityExceedsAvailable.                                  *)
(*                                                                         *)
(* Tables are sets of rows.  Python None is the empty tuple and a date d   *)
(* is the one-element tuple <<d>>, so that an optional field can be        *)
(* compared with None.  Three specifications share the variables:          *)
(*   SpecStrategy  calls made directly on strategy instances               *)
(*   Spec          calls made through the Availability facade              *)
(*   SpecConc      record_purchase calls through the facade, interleaved   *)
(*                 at their database accesses                              *)
(***************************************************************************)
EXTENDS Integers, FiniteSets, Sequences, TLC

\* ---------------------------------------------------------------- bounds
MaxStock == 2
MaxQty == 3
MaxDate == 2
NumProcs == 2

Avail == {"sku1", "sku2"}
Codes == {"boolean", "countdown", "daterange"}
Stock == 0..MaxStock
Quantities == -1..MaxQty
Dates == 1..MaxDate
Today == 0..(MaxDate + 1)
Procs == 1..NumProcs

None == <<>>
OptDate == {None} \cup {<<d>> : d \in Dates}

VARIABLES
  availability_type,  \* Availability.availability_type.code, per Availability
  booleanRows,        \* BooleanAvailability table
  countdownRows,      \* CountdownAvailability table
  daterangeRows,      \* DateRangeAvailability table
  countdown,          \* a CountdownAvailability instance held in memory
  last,               \* the last call: operation, arguments and outcome
  pc,                 \* SpecConc: position of each concurrent call
  inst,               \* SpecConc: the instance each call has loaded
  qty,                \* SpecConc: the quantity of each call
  stock0              \* SpecConc: num_products persisted before the calls

vars == <<availability_type, booleanRows, countdownRows, daterangeRows,
          countdown, last, pc, inst, qty, stock0>>

facadeVars == <<availability_type, booleanRows, countdownRows, daterangeRows>>
concVars == <<pc, inst, qty, stock0>>

\* ------------------------------------------------------------ row shapes
BooleanRow(a, flag) == [availability |-> a, is_available |-> flag]
CountdownRow(a, n) == [availability |-> a, num_products |-> n]
DateRangeRow(s, e) == [start_date |-> s, end_date |-> e]

\* unique=True on the availability foreign key
UniqueAvailability(rows) ==
  \A r1, r2 \in rows : r1.availability = r2.availability => r1 = r2

\* Model.save(): insert the row, or update the row of the same identity
Save(rows, row) ==
  {r \in rows : r.availability # row.availability} \cup {row}

Max(a, b) == IF a > b THEN a ELSE b

\* --------------------------------------------------------- the strategies
\* AvailabilityMixin
MixinQuantityAvailable(quantity) == TRUE

MixinRecordPurchase(self, quantity) ==
  [raised |-> FALSE, self |-> self, save |-> FALSE]

\* BooleanAvailability
\* variant: the flag is ignored, as in the mixin's quantity_available
BooleanAvailable_AlwaysTrue(self) == TRUE

BooleanAvailable(self) == self.is_available

\* CountdownAvailability
CountdownAvailable(self) == IF self.num_products > 0 THEN TRUE ELSE FALSE

\* variant: strict comparison
CountdownQuantityAvailable_Strict(self, quantity) ==
  IF quantity < self.num_products THEN TRUE ELSE FALSE

CountdownQuantityAvailable(self, quantity) ==
  IF quantity <= self.num_products THEN TRUE ELSE FALSE

\* variant: the subtraction is made before the check
CountdownRecordPurchase_CheckAfter(self, quantity) ==
  LET n == self.num_products - quantity IN
    IF n < 0
      THEN [raised |-> TRUE, self |-> [self EXCEPT !.num_products = n], save |-> FALSE]
      ELSE [raised |-> FALSE, self |-> [self EXCEPT !.num_products = n], save |-> TRUE]

\* variant: the clamped count is saved before the check raises
CountdownRecordPurchase_SaveFirst(self, quantity) ==
  [raised |-> quantity > self.num_products,
   self |-> [self EXCEPT !.num_products = Max(self.num_products - quantity, 0)],
   save |-> TRUE]

\* variant: every purchase takes one unit, whatever the quantity
CountdownRecordPurchase_ByOne(self, quantity) ==
  IF quantity > self.num_products
    THEN [raised |-> TRUE, self |-> self, save |-> FALSE]
    ELSE [raised |-> FALSE,
          self |-> [self EXCEPT !.num_products = Max(self.num_products - 1, 0)],
          save |-> TRUE]

CountdownRecordPurchase(self, quantity) ==
  IF quantity > self.num_products
    THEN [raised |-> TRUE, self |-> self, save |-> FALSE]
    ELSE [raised |-> FALSE,
          self |-> [self EXCEPT !.num_products = Max(self.num_products - quantity, 0)],
          save |-> TRUE]

\* DateRangeAvailability; a date object is always truthy, None is not
Truthy(d) == d # None

\* variant: the bounds themselves are excluded
DateRangeAvailable_Exclusive(self, today) ==
  IF Truthy(self.start_date) /\ today <= self.start_date[1] THEN FALSE
  ELSE IF Truthy(self.end_date) /\ today >= self.end_date[1] THEN FALSE
  ELSE TRUE

DateRangeAvailable(self, today) ==
  IF Truthy(self.start_date) /\ today < self.start_date[1] THEN FALSE
  ELSE IF Truthy(self.end_date) /\ today > self.end_date[1] THEN FALSE
  ELSE TRUE

\* ------------------------------------------------------------ call record
Call(op, target, quantity, today, outcome, ret) ==
  [op |-> op, target |-> target, quantity |-> quantity, today |-> today,
   outcome |-> outcome, ret |-> ret]

NoCall == Call("none", "none", 0, 0, "none", FALSE)

Outcome(r) == IF r.raised THEN "QuantityExceedsAvailable" ELSE "return"

\* ------------------------------------------------- calls on the strategies
\* The instance of each call is a row of the strategy's table; only the
\* CountdownAvailability instance is kept in memory between calls, since it
\* is the only one a method assigns to.
BooleanAvailableCall ==
  \E self \in booleanRows :
    /\ last' = Call("Boolean.available", "sku1", 0, 0, "return", BooleanAvailable(self))
    /\ UNCHANGED <<facadeVars, countdown, concVars>>

BooleanQuantityAvailableCall(quantity) ==
  \E self \in booleanRows :
    /\ last' = Call("Boolean.quantity_available", "sku1", quantity, 0, "return",
                    MixinQuantityAvailable(quantity))
    /\ UNCHANGED <<facadeVars, countdown, concVars>>

BooleanRecordPurchaseCall(quantity) ==
  \E self \in booleanRows :
    LET r == MixinRecordPurchase(self, quantity) IN
      /\ booleanRows' = IF r.save THEN Save(booleanRows, r.self) ELSE booleanRows
      /\ last' = Call("Boolean.record_purchase", "sku1", quantity, 0, Outcome(r), FALSE)
      /\ UNCHANGED <<availability_type, countdownRows, daterangeRows, countdown, concVars>>

CountdownAvailableCall ==
  /\ last' = Call("Countdown.available", "sku1", 0, 0, "return", CountdownAvailable(countdown))
  /\ UNCHANGED <<facadeVars, countdown, concVars>>

CountdownQuantityAvailableCall(quantity) ==
  /\ last' = Call("Countdown.quantity_available", "sku1", quantity, 0, "return",
                  CountdownQuantityAvailable(countdown, quantity))
  /\ UNCHANGED <<facadeVars, countdown, concVars>>

CountdownRecordPurchaseCall(quantity) ==
  LET r == CountdownRecordPurchase(countdown, quantity) IN
    /\ r.self.num_products <= MaxStock
    /\ countdown' = r.self
    /\ countdownRows' = IF r.save THEN Save(countdownRows, r.self) ELSE countdownRows
    /\ last' = Call("Countdown.record_purchase", "sku1", quantity, 0, Outcome(r), FALSE)
    /\ UNCHANGED <<availability_type, booleanRows, daterangeRows, concVars>>

DateRangeAvailableCall(today) ==
  \E self \in daterangeRows :
    /\ last' = Call("DateRange.available", "none", 0, today, "return",
                    DateRangeAvailable(self, today))
    /\ UNCHANGED <<facadeVars, countdown, concVars>>

DateRangeQuantityAvailableCall(quantity) ==
  \E self \in daterangeRows :
    /\ last' = Call("DateRange.quantity_available", "none", quantity, 0, "return",
                    MixinQuantityAvailable(quantity))
    /\ UNCHANGED <<facadeVars, countdown, concVars>>

DateRangeRecordPurchaseCall(quantity) ==
  \E self \in daterangeRows :
    LET r == MixinRecordPurchase(self, quantity) IN
      /\ daterangeRows' = IF r.save THEN (daterangeRows \ {self}) \cup {r.self}
                                    ELSE daterangeRows
      /\ last' = Call("DateRange.record_purchase", "none", quantity, 0, Outcome(r), FALSE)
      /\ UNCHANGED <<availability_type, booleanRows, countdownRows, countdown, concVars>>

NoProcs ==
  /\ pc = [p \in Procs |-> "idle"]
  /\ inst = [p \in Procs |-> CountdownRow("sku1", 0)]
  /\ qty = [p \in Procs |-> 1]
  /\ stock0 = 0

InitStrategy ==
  /\ availability_type = [a \in Avail |-> "countdown"]
  /\ \E flag \in BOOLEAN : booleanRows = {BooleanRow("sku1", flag)}
  /\ \E s \in OptDate, e \in OptDate : daterangeRows = {DateRangeRow(s, e)}
  /\ \E n \in Stock : countdown = CountdownRow("sku1", n)
  /\ countdownRows \in {{}, {countdown}}
  /\ last = NoCall
  /\ NoProcs

NextStrategy ==
  \/ BooleanAvailableCall
  \/ \E quantity \in Quantities : BooleanQuantityAvailableCall(quantity)
  \/ \E quantity \in Quantities : BooleanRecordPurchaseCall(quantity)
  \/ CountdownAvailableCall
  \/ \E quantity \in Quantities : CountdownQuantityAvailableCall(quantity)
  \/ \E quantity \in Quantities : CountdownRecordPurchaseCall(quantity)
  \/ \E today \in Today : DateRangeAvailableCall(today)
  \/ \E quantity \in Quantities : DateRangeQuantityAvailableCall(quantity)
  \/ \E quantity \in Quantities : DateRangeRecordPurchaseCall(quantity)

SpecStrategy == InitStrategy /\ [][NextStrategy]_vars

\* ------------------------------------------------------------- the facade
\* gf(code): the model class a type code names
gf(code) ==
  CASE code = "boolean" -> "BooleanAvailability"
    [] code = "countdown" -> "CountdownAvailability"
    [] code = "daterange" -> "DateRangeAvailability"

\* the fields each strategy model declares
Fields(model) ==
  CASE model = "BooleanAvailability" -> {"availability", "is_available"}
    [] model = "CountdownAvailability" -> {"availability", "num_products"}
    [] model = "DateRangeAvailability" -> {"start_date", "end_date"}

Objects(model) ==
  CASE model = "BooleanAvailability" -> booleanRows
    [] model = "CountdownAvailability" -> countdownRows
    [] model = "DateRangeAvailability" -> daterangeRows

\* variant: the lookup takes the first row of the table, unfiltered
helper_Unfiltered(self) ==
  LET model == gf(availability_type[self])
      found == Objects(model) IN
    IF found = {}
      THEN [error |-> "DoesNotExist", model |-> model, found |-> found]
      ELSE [error |-> "none", model |-> model, found |-> {CHOOSE r \in found : TRUE}]

\* Availability.helper: gf(code).objects.get(availability=self)
helper(self) ==
  LET model == gf(availability_type[self]) IN
    IF "availability" \notin Fields(model)
      THEN [error |-> "FieldError", model |-> model, found |-> {}]
    ELSE LET found == {r \in Objects(model) : r.availability = self} IN
      IF found = {}
        THEN [error |-> "DoesNotExist", model |-> model, found |-> found]
      ELSE IF Cardinality(found) > 1
        THEN [error |-> "MultipleObjectsReturned", model |-> model, found |-> found]
      ELSE [error |-> "none", model |-> model, found |-> found]

\* method resolution on the instance the helper returned
StrategyAvailable(model, obj, today) ==
  CASE model = "BooleanAvailability" -> BooleanAvailable(obj)
    [] model = "CountdownAvailability" -> CountdownAvailable(obj)
    [] model = "DateRangeAvailability" -> DateRangeAvailable(obj, today)

StrategyRecordPurchase(model, obj, quantity) ==
  CASE model = "CountdownAvailability" -> CountdownRecordPurchase(obj, quantity)
    [] OTHER -> MixinRecordPurchase(obj, quantity)

AvailabilityAvailable(self) ==
  \E today \in Today :
    LET h == helper(self) IN
      /\ last' = IF h.error # "none"
                   THEN Call("Availability.available", self, 0, 0, h.error, FALSE)
                   ELSE LET obj == CHOOSE r \in h.found : TRUE IN
                     Call("Availability.available", self, 0,
                          IF h.model = "DateRangeAvailability" THEN today ELSE 0,
                          "return", StrategyAvailable(h.model, obj, today))
      /\ UNCHANGED <<facadeVars, countdown, concVars>>

AvailabilityRecordPurchase(self, quantity) ==
  LET h == helper(self) IN
    IF h.error # "none"
      THEN /\ last' = Call("Availability.record_purchase", self, quantity, 0, h.error, FALSE)
           /\ UNCHANGED <<facadeVars, countdown, concVars>>
      ELSE LET obj == CHOOSE r \in h.found : TRUE
               r == StrategyRecordPurchase(h.model, obj, quantity)
               saved == IF r.save THEN Save(Objects(h.model), r.self) ELSE Objects(h.model)
           IN /\ h.model = "CountdownAvailability" => r.self.num_products <= MaxStock
              /\ booleanRows' = IF h.model = "BooleanAvailability" THEN saved ELSE booleanRows
              /\ countdownRows' = IF h.model = "CountdownAvailability" THEN saved ELSE countdownRows
              /\ last' = Call("Availability.record_purchase", self, quantity, 0, Outcome(r), FALSE)
              /\ UNCHANGED <<availability_type, daterangeRows, countdown, concVars>>

BooleanTables ==
  {rows \in SUBSET {BooleanRow(a, flag) : a \in Avail, flag \in BOOLEAN} :
     UniqueAvailability(rows)}

CountdownTables ==
  {rows \in SUBSET {CountdownRow(a, n) : a \in Avail, n \in Stock} :
     UniqueAvailability(rows)}

Init ==
  /\ availability_type \in [Avail -> Codes]
  /\ booleanRows \in BooleanTables
  /\ countdownRows \in CountdownTables
  /\ daterangeRows \in {{}, {DateRangeRow(None, None)}}
  /\ countdown = CountdownRow("sku1", 0)
  /\ last = NoCall
  /\ NoProcs

Next ==
  \/ \E self \in Avail : AvailabilityAvailable(self)
  \/ \E self \in Avail, quantity \in Quantities : AvailabilityRecordPurchase(self, quantity)

Spec == Init /\ [][Next]_vars

\* ------------------------------------------------- concurrent purchases
\* Each call is Availability("sku1").record_purchase(qty[p]): the helper's
\* objects.get, the method body on the loaded instance, and the save.
Load(p) ==
  LET h == helper("sku1") IN
    /\ pc[p] = "start"
    /\ h.error = "none"
    /\ inst' = [inst EXCEPT ![p] = CHOOSE r \in h.found : TRUE]
    /\ pc' = [pc EXCEPT ![p] = "loaded"]
    /\ UNCHANGED <<facadeVars, countdown, last, qty, stock0>>

Check(p) ==
  LET r == CountdownRecordPurchase(inst[p], qty[p]) IN
    /\ pc[p] = "loaded"
    /\ inst' = [inst EXCEPT ![p] = r.self]
    /\ pc' = [pc EXCEPT ![p] = IF r.raised THEN "raised" ELSE "saving"]
    /\ UNCHANGED <<facadeVars, countdown, last, qty, stock0>>

SaveStep(p) ==
  /\ pc[p] = "saving"
  /\ countdownRows' = Save(countdownRows, inst[p])
  /\ pc' = [pc EXCEPT ![p] = "done"]
  /\ UNCHANGED <<availability_type, booleanRows, daterangeRows, countdown, last,
                 inst, qty, stock0>>

InitConc ==
  /\ availability_type = [a \in Avail |-> "countdown"]
  /\ booleanRows = {}
  /\ daterangeRows = {}
  /\ stock0 \in Stock
  /\ countdownRows = {CountdownRow("sku1", stock0)}
  /\ countdown = CountdownRow("sku1", 0)
  /\ last = NoCall
  /\ pc = [p \in Procs |-> "start"]
  /\ inst = [p \in Procs |-> CountdownRow("sku1", 0)]
  /\ qty \in [Procs -> 1..MaxQty]

NextConc ==
  \/ \E p \in Procs : Load(p)
  \/ \E p \in Procs : Check(p)
  \/ \E p \in Procs : SaveStep(p)

SpecConc == InitConc /\ [][NextConc]_vars

\* ------------------------------------------------------------- properties
Persisted(a) == {r \in countdownRows : r.availability = a}

\* C1: starting from num_products >= 0, num_products is never negative, in
\* the instance or in its persisted row, after any sequence of
\* record_purchase calls, whether they succeed or raise.
C1_NeverNegative ==
  /\ countdown.num_products >= 0
  /\ \A r \in countdownRows : r.num_products >= 0

C1_Witness ==
  /\ last.op = "Countdown.record_purchase"
  /\ last.outcome = "QuantityExceedsAvailable"
  /\ countdown.num_products = 0
  /\ Persisted("sku1") = {CountdownRow("sku1", 0)}

\* C2: record_purchase(q) with q > num_products raises
\* QuantityExceedsAvailable and changes neither the instance nor its
\* persisted row.
C2_FailedPurchaseNoEffect ==
  [][(last'.op = "Countdown.record_purchase"
        /\ last'.quantity > countdown.num_products)
       => /\ last'.outcome = "QuantityExceedsAvailable"
          /\ countdown' = countdown
          /\ countdownRows' = countdownRows]_vars

C2_Witness ==
  /\ last.op = "Countdown.record_purchase"
  /\ last.outcome = "QuantityExceedsAvailable"
  /\ last.quantity = 3
  /\ countdown.num_products = 2
  /\ Persisted("sku1") = {CountdownRow("sku1", 2)}

\* C3: record_purchase(q) with q <= N, N the num_products before the call,
\* returns normally and leaves num_products = N - q in the instance and in
\* the row read afresh; the clamp at 0 does not alter N - q.
C3_PurchaseDecrements ==
  [][(last'.op = "Countdown.record_purchase"
        /\ last'.quantity <= countdown.num_products)
       => /\ last'.outcome = "return"
          /\ countdown'.num_products = countdown.num_products - last'.quantity
          /\ Persisted("sku1")' =
               {CountdownRow("sku1", countdown.num_products - last'.quantity)}]_vars

C3_Witness ==
  /\ last.op = "Countdown.record_purchase"
  /\ last.outcome = "return"
  /\ last.quantity = 2
  /\ countdown.num_products = 0
  /\ Persisted("sku1") = {CountdownRow("sku1", 0)}

\* C8: quantity_available(q) is true iff q <= num_products, available() is
\* true iff num_products > 0 and so equals quantity_available(1); neither
\* query changes num_products.
C8_CountdownQueries ==
  [][/\ last'.op = "Countdown.quantity_available"
          => /\ last'.ret = (last'.quantity <= countdown.num_products)
             /\ countdown' = countdown /\ countdownRows' = countdownRows
     /\ last'.op = "Countdown.available"
          => /\ last'.ret = (countdown.num_products > 0)
             /\ last'.ret = CountdownQuantityAvailable(countdown, 1)
             /\ countdown' = countdown /\ countdownRows' = countdownRows]_vars

C8_Witness ==
  /\ last.op = "Countdown.quantity_available"
  /\ last.quantity = countdown.num_products
  /\ last.quantity > 0
  /\ last.ret = TRUE

\* C9: BooleanAvailability.available() equals the stored flag,
\* quantity_available(q) is true for every q, and record_purchase(q) never
\* raises and never changes the flag.
C9_BooleanStrategy ==
  [][/\ last'.op = "Boolean.available"
          => \A self \in booleanRows : last'.ret = self.is_available
     /\ last'.op = "Boolean.quantity_available" => last'.ret = TRUE
     /\ last'.op = "Boolean.record_purchase" => last'.outcome = "return"
     /\ booleanRows' = booleanRows]_vars

C9_Witness ==
  /\ last.op = "Boolean.record_purchase"
  /\ last.quantity = MaxQty
  /\ last.outcome = "return"
  /\ booleanRows = {BooleanRow("sku1", FALSE)}

\* C10: DateRangeAvailability.available() on date T is false iff
\* (start_date is set and T < start_date) or (end_date is set and
\* T > end_date); record_purchase and quantity_available leave both dates
\* unchanged.
TooSoon(self, T) == self.start_date # None /\ T < self.start_date[1]
TooLate(self, T) == self.end_date # None /\ T > self.end_date[1]

C10_DateRangeWindow ==
  [][/\ last'.op = "DateRange.available"
          => \A self \in daterangeRows :
               last'.ret = ~(TooSoon(self, last'.today) \/ TooLate(self, last'.today))
     /\ daterangeRows' = daterangeRows]_vars

C10_Witness ==
  /\ last.op = "DateRange.available"
  /\ last.ret = TRUE
  /\ \E self \in daterangeRows :
       /\ self.start_date = <<last.today>>
       /\ self.end_date # None
       /\ self.end_date[1] > last.today

\* C7: when no row of the variant selected by the type code refers to the
\* Availability, available() and record_purchase(q) end in a lookup failure
\* and no table changes.
NoStrategyRecord(a) ==
  \A r \in Objects(gf(availability_type[a])) :
    "availability" \notin DOMAIN r \/ r.availability # a

C7_LookupFailure ==
  [][\A a \in Avail :
       (last'.op \in {"Availability.available", "Availability.record_purchase"}
          /\ last'.target = a /\ NoStrategyRecord(a))
       => /\ last'.outcome \in {"DoesNotExist", "FieldError"}
          /\ UNCHANGED facadeVars]_vars

C7_Witness ==
  /\ last.op = "Availability.record_purchase"
  /\ last.outcome = "DoesNotExist"
  /\ availability_type[last.target] = "countdown"
  /\ last.quantity = 1
  /\ \E r \in countdownRows : r.availability # last.target /\ r.num_products >= 1

\* C6: for an Availability of each variant that has its strategy record,
\* the facade's available() returns what that record's available() returns
\* and record_purchase(q) has the outcome and effect of that record's
\* record_purchase(q), changing no other row.
StrategyRecords(a) ==
  LET model == gf(availability_type[a]) IN
    IF model = "DateRangeAvailability" THEN daterangeRows
    ELSE {r \in Objects(model) : r.availability = a}

C6_FacadeDelegates ==
  [][\A a \in Avail : \A obj \in StrategyRecords(a) :
       LET model == gf(availability_type[a])
           r == StrategyRecordPurchase(model, obj, last'.quantity)
       IN /\ (last'.op = "Availability.available" /\ last'.target = a)
               => /\ last'.outcome = "return"
                  /\ \E today \in Today :
                       last'.ret = StrategyAvailable(model, obj, today)
                  /\ UNCHANGED facadeVars
          /\ (last'.op = "Availability.record_purchase" /\ last'.target = a)
               => /\ last'.outcome = Outcome(r)
                  /\ booleanRows' = booleanRows
                  /\ daterangeRows' = daterangeRows
                  /\ countdownRows' =
                       IF r.save THEN Save(countdownRows, r.self)
                                 ELSE countdownRows]_vars

\* C4: NumProcs concurrent record_purchase(1) calls against persisted
\* num_products = NumProcs end with num_products = 0 and every call
\* having succeeded.
AllFinished == \A p \in Procs : pc[p] \in {"done", "raised"}

C4_NoLostUpdate ==
  (AllFinished /\ stock0 = NumProcs /\ \A p \in Procs : qty[p] = 1)
    => /\ Persisted("sku1") = {CountdownRow("sku1", 0)}
       /\ \A p \in Procs : pc[p] = "done"

\* C5: the quantities of the calls that returned successfully never sum to
\* more than the num_products persisted before the calls.
RECURSIVE SumQty(_)
SumQty(S) ==
  IF S = {} THEN 0
  ELSE LET p == CHOOSE x \in S : TRUE IN qty[p] + SumQty(S \ {p})

C5_NoOverdraw == SumQty({p \in Procs : pc[p] = "done"}) <= stock0
====
